---------------------------- MODULE Spec2Model ----------------------------
(***************************************************************************)
(* Model of fast_generation (src/src/main.rs): a benchmark that generates  *)
(* batches of sensor rows and loads them into PostgreSQL three ways        *)
(* (row-by-row INSERT, one multi-row INSERT string, COPY ... WITH BINARY). *)
(* The binary path encodes rows with generate_buffer, which uses           *)
(* datetime_to_postgres_binary and numeric_to_postgres_binary.             *)
(*                                                                         *)
(* Representation choices:                                                 *)
(*  - a byte is a number in 0..255, a buffer or a string a sequence of     *)
(*    bytes (strings hold ASCII codes);                                    *)
(*  - an f64 is [kind, neg, int, frac]: kind "fin" is the double nearest   *)
(*    to +-(int + frac/100), kind "nan"/"inf" the non-finite values (neg   *)
(*    is the sign bit);                                                    *)
(*  - a DateTime<Utc> is [secs, nanos]: seconds since the Unix epoch and   *)
(*    nanoseconds 0..999999999 within the second;                          *)
(*  - an i64 of microseconds, too wide for TLC's integers, is a pair      *)
(*    [hi, lo] standing for hi * 1000000 + lo.                             *)
(***************************************************************************)
EXTENDS Integers, Sequences, FiniteSets

(* pc            where main is: "new", "next", "call", "copy_in", "write",   *)
(*               "finish", "drop", "done" ("idle" when main is not run)    *)
(* strategy      index into Strategies of the pair being run               *)
(* current_time, sensor_id, current_tick   the state of generate_data      *)
(* batch_data    the batch handed to the strategy's function               *)
(* buffer        copy_to_postgres's buffer: << >> or << [ok, bytes] >>     *)
(* sink          the server's side of a COPY: open or not, bytes received  *)
(* table         rows stored in public.metrics                             *)
(* stdout        the lines printed                                         *)
(* context       the live ExecutionContext: << >> or << [name, s0] >>      *)
(* produced      the rows generate_data has yielded for this strategy, in  *)
(*               order: timestamp, sensor id and tick of each              *)
(* arg, ret      input and result of an encoder called on its own          *)
VARIABLES pc, strategy, current_time, sensor_id, current_tick, batch_data,
          buffer, sink, table, stdout, context, produced, arg, ret

vars == <<pc, strategy, current_time, sensor_id, current_tick, batch_data,
          buffer, sink, table, stdout, context, produced, arg, ret>>

progVars == <<pc, strategy, current_time, sensor_id, current_tick, batch_data,
              buffer, sink, table, stdout, context, produced>>

---------------------------------------------------------------------------
(* Bounds of the model *)

\* rows per batch (the program uses 10_000)
BATCH_SIZE == 3
\* batches per strategy (the program uses 1_000)
BATCH_COUNT == 3
\* a progress line every REPORT_COUNT batches (the program uses 100)
REPORT_COUNT == 2
\* longest integer part, in decimal digits, of the values given to the
\* numeric encoder
MaxIntLen == 9
\* longest batch given to generate_buffer on its own
MaxRows == 2
\* the timestamps given to the temporal encoder lie within MaxSecs whole
\* seconds of the epoch (and at two far instants)
MaxSecs == 2

(* Program constants *)
MAX_SENSORS == 32
NANOS_PER_SEC == 1000000000
NANOS_PER_MICRO == 1000
MICROS_PER_SEC == 1000000
SECS_PER_DAY == 86400

---------------------------------------------------------------------------
(* Fixed-width integers and their big-endian forms *)

\* i16 arithmetic wraps (a release build; no input of the model reaches a wrap)
WrapI16(x) == ((x + 32768) % 65536) - 32768

\* u8 subtraction, wrapping
U8Sub(a, b) == (a - b) % 256

\* write_i16::<BigEndian>: \div floors and % is non-negative, so a negative
\* value comes out in two's complement
I16BE(v) == << (v \div 256) % 256, v % 256 >>

\* write_i32::<BigEndian>
I32BE(v) == << (v \div 16777216) % 256, (v \div 65536) % 256,
               (v \div 256) % 256, v % 256 >>

\* The little-endian bytes of f * 1000000 + m (0 <= m < 1000000, f floored),
\* n of them, by repeated floored division by 256.
RECURSIVE WideBytesLE(_, _, _)
WideBytesLE(f, m, n) ==
  IF n = 0 THEN << >>
  ELSE LET t == (f % 256) * MICROS_PER_SEC + m
       IN  << t % 256 >> \o WideBytesLE(f \div 256, t \div 256, n - 1)

Reverse(s) == [i \in 1..Len(s) |-> s[Len(s) + 1 - i]]

\* write_i64::<BigEndian> of the i64 w.hi * 1000000 + w.lo, where hi and lo
\* have the same sign and |lo| < 1000000
I64BE(w) ==
  LET f == IF w.lo < 0 THEN w.hi - 1 ELSE w.hi
      m == IF w.lo < 0 THEN w.lo + MICROS_PER_SEC ELSE w.lo
  IN  Reverse(WideBytesLE(f, m, 8))

---------------------------------------------------------------------------
(* f64 and its Display form *)

RECURSIVE DigitsOf(_)
\* the decimal digits of a natural number, as ASCII
DigitsOf(n) == IF n < 10 THEN << 48 + n >>
               ELSE DigitsOf(n \div 10) \o << 48 + (n % 10) >>

\* f64::abs clears the sign bit
F64Abs(v) == [v EXCEPT !.neg = FALSE]

\* f64::is_sign_negative reads the sign bit (also of -0.0 and of a NaN)
IsSignNegative(v) == v.neg

\* f64::to_string: the shortest decimal that reads back as the same double,
\* never in exponent form; no ".0" for a whole number, no trailing zero
F64ToString(v) ==
  LET sgn == IF v.neg THEN << 45 >> ELSE << >>
  IN  CASE v.kind = "nan" -> << 78, 97, 78 >>
        [] v.kind = "inf" -> sgn \o << 105, 110, 102 >>
        [] OTHER ->
             sgn \o DigitsOf(v.int) \o
             ( IF v.frac = 0 THEN << >>
               ELSE IF v.frac % 10 = 0 THEN << 46, 48 + (v.frac \div 10) >>
               ELSE << 46, 48 + (v.frac \div 10), 48 + (v.frac % 10) >> )

RECURSIVE SplitAt(_, _, _)
\* str::split(sep): cur is the piece being read
SplitAt(s, sep, cur) ==
  IF s = << >> THEN << cur >>
  ELSE IF Head(s) = sep THEN << cur >> \o SplitAt(Tail(s), sep, << >>)
  ELSE SplitAt(Tail(s), sep, Append(cur, Head(s)))

Split(s, sep) == SplitAt(s, sep, << >>)

---------------------------------------------------------------------------
(* numeric_to_postgres_binary *)

\* format!("{:0>width$}", s): s padded on the left with '0' up to width
PadLeftZeros(s, width) ==
  IF Len(s) >= width THEN s
  ELSE [i \in 1..(width - Len(s)) |-> 48] \o s

RECURSIVE Chunks(_, _)
\* slice::chunks(n): pieces of n, the last one shorter if need be
Chunks(s, n) ==
  IF s = << >> THEN << >>
  ELSE IF Len(s) <= n THEN << s >>
  ELSE << SubSeq(s, 1, n) >> \o Chunks(SubSeq(s, n + 1, Len(s)), n)

RECURSIVE ChunkValueFrom(_, _, _)
\* the loop of the closure: value += (digit - b'0') as i16 * 10i16.pow(3 - i)
ChunkValueFrom(c, i, value) ==
  IF i > Len(c) THEN value
  ELSE ChunkValueFrom(c, i + 1,
         WrapI16(value + WrapI16(U8Sub(c[i], 48) * 10 ^ (4 - i))))

ChunkValue(c) == ChunkValueFrom(c, 1, 0)

\* (mutant) the padding without the test for a length already a multiple of 4
PaddingAlways(len) == 4 - (len % 4)

\* padding to the next multiple of 4, from the integer part's length
Padding(len) == IF len % 4 # 0 THEN 4 - (len % 4) ELSE 0

\* padded_number: the integer part zero-padded on the left, then the fraction
PaddedNumber(integer, fraction) ==
  PadLeftZeros(integer, Len(integer) + Padding(Len(integer))) \o fraction

\* weight: (integer.len() as i16 - 1) / 4
Weight(integer) == (Len(integer) - 1) \div 4

\* dscale: fraction.len() as i16
DScale(fraction) == Len(fraction)

\* sign: 0x4000 for a negative sign bit
SignFlag(value) == IF IsSignNegative(value) THEN 16384 ELSE 0

\* digits: one i16 per chunk of 4 characters
NumericDigits(padded) ==
  LET ch == Chunks(padded, 4) IN [i \in 1..Len(ch) |-> ChunkValue(ch[i])]

RECURSIVE WriteDigits(_)
WriteDigits(ds) == IF ds = << >> THEN << >>
                   ELSE I16BE(Head(ds)) \o WriteDigits(Tail(ds))

\* the four i16 header fields, then every digit group
NumericBytes(ndigits, weight, sign, dscale, digits) ==
  I16BE(ndigits) \o I16BE(weight) \o I16BE(sign) \o I16BE(dscale)
    \o WriteDigits(digits)

\* The function returns Vec<u8>: it has no error outcome.
numeric_to_postgres_binary(value) ==
  LET parts    == Split(F64ToString(F64Abs(value)), 46)
      integer  == parts[1]
      fraction == IF Len(parts) > 1 THEN parts[2] ELSE << >>
      digits   == NumericDigits(PaddedNumber(integer, fraction))
  IN  NumericBytes(Len(digits), Weight(integer), SignFlag(value),
                   DScale(fraction), digits)

---------------------------------------------------------------------------
(* Timestamps: chrono's DateTime<Utc> and TimeDelta *)

\* 2000-01-01T00:00:00Z, in seconds since 1970-01-01T00:00:00Z
POSTGRES_EPOCH == [secs |-> 946684800, nanos |-> 0]

\* DateTime + TimeDelta, the delta given as whole seconds and nanoseconds
AddDuration(dt, s, n) ==
  LET t == dt.nanos + n
  IN  [secs |-> dt.secs + s + (t \div NANOS_PER_SEC), nanos |-> t % NANOS_PER_SEC]

\* DateTime - DateTime: a TimeDelta [secs, nanos] with 0 <= nanos < 10^9
\* (a negative delta has secs < 0 and nanos counting up from it)
DateTimeSub(a, b) ==
  IF a.nanos >= b.nanos
  THEN [secs |-> a.secs - b.secs, nanos |-> a.nanos - b.nanos]
  ELSE [secs |-> a.secs - b.secs - 1,
        nanos |-> a.nanos - b.nanos + NANOS_PER_SEC]

\* TimeDelta::num_seconds: whole seconds, rounded toward zero
NumSeconds(d) == IF d.secs < 0 /\ d.nanos > 0 THEN d.secs + 1 ELSE d.secs

\* TimeDelta::subsec_nanos: the rest, with the sign of the delta
SubsecNanos(d) ==
  IF d.secs < 0 /\ d.nanos > 0 THEN d.nanos - NANOS_PER_SEC ELSE d.nanos

\* Rust's integer division truncates toward zero
TruncDiv(a, b) == IF a >= 0 THEN a \div b ELSE -((-a) \div b)

\* TimeDelta::num_microseconds: num_seconds * 1_000_000 + subsec_nanos / 1000.
\* The checked arithmetic returns None past the i64 range; a DateTime<Utc>
\* lies within about 262,000 years of year 0 and the i64 range spans about
\* 292,000 years of microseconds, so the delta of two DateTimes is always Some.
NumMicroseconds(d) ==
  [hi |-> NumSeconds(d), lo |-> TruncDiv(SubsecNanos(d), NANOS_PER_MICRO)]

datetime_to_postgres_binary(datetime) ==
  NumMicroseconds(DateTimeSub(datetime, POSTGRES_EPOCH))

---------------------------------------------------------------------------
(* generate_buffer *)

\* b"PGCOPY\n\xff\r\n\0"
Signature == << 80, 71, 67, 79, 80, 89, 10, 255, 13, 10, 0 >>

\* the signature, the flags field and the header extension length
BufferHeader == Signature \o I32BE(0) \o I32BE(0)

\* (mutant) the temperature's length prefix fixed at that of two digit groups
RowRecordFixedLength(row) ==
  LET micros        == datetime_to_postgres_binary(row.created)
      numeric_bytes == numeric_to_postgres_binary(row.temperature)
  IN  I16BE(3)
        \o I32BE(8) \o I64BE(micros)
        \o I32BE(4) \o I32BE(row.sensor_id)
        \o I32BE(12) \o numeric_bytes

\* the body of the loop over the rows
RowRecord(row) ==
  LET micros        == datetime_to_postgres_binary(row.created)
      numeric_bytes == numeric_to_postgres_binary(row.temperature)
  IN  I16BE(3)
        \o I32BE(8) \o I64BE(micros)
        \o I32BE(4) \o I32BE(row.sensor_id)
        \o I32BE(Len(numeric_bytes)) \o numeric_bytes

RECURSIVE RowRecords(_)
RowRecords(rows) == IF rows = << >> THEN << >>
                    ELSE RowRecord(Head(rows)) \o RowRecords(Tail(rows))

BufferTrailer == I16BE(-1)

\* (mutant) the end marker left out
generate_buffer_no_trailer(rows) ==
  [ok |-> TRUE, bytes |-> BufferHeader \o RowRecords(rows)]

\* Every write goes to a Cursor over a Vec<u8>, which cannot fail: the
\* anyhow::Result is always Ok.
generate_buffer(rows) ==
  [ok |-> TRUE, bytes |-> BufferHeader \o RowRecords(rows) \o BufferTrailer]

---------------------------------------------------------------------------
(* The encoders on their own: arg holds the input of one call (<< >> when  *)
(* no call is modelled), ret what the call returned (<< >> before it).     *)

Idle == /\ pc = "idle" /\ strategy = 1
        /\ current_time = POSTGRES_EPOCH /\ sensor_id = 1 /\ current_tick = 0
        /\ batch_data = << >> /\ buffer = << >>
        /\ sink = [open |-> FALSE, bytes |-> << >>]
        /\ table = 0 /\ stdout = << >> /\ context = << >> /\ produced = << >>

\* the integer parts tried: for every length the least, the greatest and a
\* mixed one (the greatest of 10 digits is the largest number TLC holds)
LowInt(k) == 10 ^ (k - 1)
HighInt(k) == IF k < 10 THEN 10 ^ k - 1 ELSE 2147483647
MixedInt(k) == 1234567890 \div (10 ^ (10 - k))
IntParts == {0} \cup UNION { {LowInt(k), HighInt(k), MixedInt(k)} : k \in 1..MaxIntLen }

FiniteValues == [kind : {"fin"}, neg : BOOLEAN, int : IntParts, frac : 0..99]
NonFiniteValues == [kind : {"nan", "inf"}, neg : BOOLEAN, int : {0}, frac : {0}]
NumericInputs == FiniteValues \cup NonFiniteValues

InitNumeric == Idle /\ arg \in { << v >> : v \in NumericInputs } /\ ret = << >>

CallNumeric ==
  /\ ret = << >>
  /\ ret' = << [outcome |-> "returned",
                 bytes |-> numeric_to_postgres_binary(arg[1])] >>
  /\ UNCHANGED <<progVars, arg>>

SpecNumeric == InitNumeric /\ [][CallNumeric]_vars

---------------------------------------------------------------------------
(* Reading a numeric payload back: the reader's side of the format, used  *)
(* to state the properties below                                           *)

\* a big-endian signed 16-bit integer at byte position p (from 1)
ReadI16(b, p) ==
  LET u == b[p] * 256 + b[p + 1] IN IF u >= 32768 THEN u - 65536 ELSE u

\* the fields of a numeric payload; digits holds the ndigits groups the
\* header announces
ReadNumeric(b) ==
  [ndigits |-> ReadI16(b, 1), weight |-> ReadI16(b, 3),
   sign |-> ReadI16(b, 5), dscale |-> ReadI16(b, 7),
   digits |-> [i \in 1..ReadI16(b, 1) |-> ReadI16(b, 7 + 2 * i)]]

RECURSIVE GroupSum(_, _, _)
\* sum of digits[i] * 10000^(upto - i) over the groups 1..upto
GroupSum(digits, upto, acc) ==
  IF upto = 0 THEN acc
  ELSE GroupSum(Tail(digits), upto - 1, acc * 10000 + Head(digits))

RECURSIVE IntLen(_)
\* the number of decimal digits of a natural number
IntLen(n) == IF n < 10 THEN 1 ELSE 1 + IntLen(n \div 10)

\* the payload b reconstructs to the value v: the groups at weights
\* weight..0 sum to the integer part, the group at weight -1 (absent when
\* zero) is the fraction in ten-thousandths, nothing lies below it, and the
\* sign flag is that of v
DecodesTo(b, v) ==
  LET n == ReadNumeric(b)
  IN  /\ n.ndigits >= 1
      /\ Len(b) = 8 + 2 * n.ndigits
      /\ \A i \in 1..n.ndigits : n.digits[i] \in 0..9999
      /\ n.weight = (IntLen(v.int) - 1) \div 4
      /\ n.ndigits \in {n.weight + 1, n.weight + 2}
      /\ GroupSum(n.digits, n.weight + 1, 0) = v.int
      /\ (IF n.ndigits = n.weight + 2 THEN n.digits[n.weight + 2] ELSE 0)
           = v.frac * 100
      /\ n.sign = (IF v.neg THEN 16384 ELSE 0)

\* C2: for every finite value with at most 2 fractional digits, the payload
\* numeric_to_postgres_binary returns reconstructs, by the base-10000 sum
\* with the sign applied, to exactly that value; every digit group lies in
\* 0..9999 and the weight is floor((integer digits - 1) / 4).
NumericRoundTrip ==
  (ret # << >> /\ arg[1].kind = "fin") => DecodesTo(ret[1].bytes, arg[1])

\* a negative value below 1 in magnitude, -0.05, encoded as the groups 0, 500
NumericRoundTripWitness ==
  /\ ret # << >>
  /\ arg[1] = [kind |-> "fin", neg |-> TRUE, int |-> 0, frac |-> 5]
  /\ ReadNumeric(ret[1].bytes).digits = << 0, 500 >>
  /\ ReadNumeric(ret[1].bytes).sign = 16384

\* C5: given NaN, +Infinity or -Infinity, numeric_to_postgres_binary ends
\* with an error outcome and returns no payload bytes.
NonFiniteRejected ==
  (ret # << >> /\ arg[1].kind # "fin")
    => (ret[1].outcome = "error" /\ ret[1].bytes = << >>)

---------------------------------------------------------------------------
(* The temporal encoder on its own *)

\* nanoseconds within the second: on, just past and just short of a whole
\* microsecond, at both ends of the second
SubNanos == {0, 1, 500, 999, 1000, 1500, 999998999, 999999000, 999999001,
             999999500, 999999999}

TimeInputs ==
  [secs : { POSTGRES_EPOCH.secs + d : d \in (-MaxSecs)..MaxSecs }
            \cup {0, POSTGRES_EPOCH.secs + SECS_PER_DAY},
   nanos : SubNanos]

InitTemporal == Idle /\ arg \in { << t >> : t \in TimeInputs } /\ ret = << >>

\* one call on t and one on t + 1 microsecond
CallTemporal ==
  /\ ret = << >>
  /\ ret' = << [cur  |-> datetime_to_postgres_binary(arg[1]),
                next |-> datetime_to_postgres_binary(
                           AddDuration(arg[1], 0, NANOS_PER_MICRO))] >>
  /\ UNCHANGED <<progVars, arg>>

SpecTemporal == InitTemporal /\ [][CallTemporal]_vars

\* b - a for two i64 [hi, lo] whose seconds differ by little
WideDiff(b, a) == (b.hi - a.hi) * MICROS_PER_SEC + (b.lo - a.lo)

\* C4: encoding t + 1 microsecond yields exactly one more than encoding t,
\* for every timestamp t, before or after the epoch, with or without
\* sub-microsecond nanoseconds.
TemporalLinear ==
  ret # << >> => WideDiff(ret[1].next, ret[1].cur) = 1

---------------------------------------------------------------------------
(* generate_buffer on its own *)

FV(neg, int, frac) == [kind |-> "fin", neg |-> neg, int |-> int, frac |-> frac]

\* epoch + 1 day, sensor 5, 23.50
ScenarioRow ==
  [created |-> AddDuration(POSTGRES_EPOCH, SECS_PER_DAY, 0), sensor_id |-> 5,
   temperature |-> FV(FALSE, 23, 50)]

RowSamples ==
  { ScenarioRow,
    [created |-> [secs |-> 946684799, nanos |-> 999999500], sensor_id |-> 1,
     temperature |-> FV(TRUE, 12, 34)],
    [created |-> [secs |-> 1700000000, nanos |-> 123456789], sensor_id |-> 32,
     temperature |-> FV(FALSE, 0, 0)],
    [created |-> POSTGRES_EPOCH, sensor_id |-> 17,
     temperature |-> FV(FALSE, 12345, 67)],
    [created |-> [secs |-> 0, nanos |-> 0], sensor_id |-> 2,
     temperature |-> [kind |-> "nan", neg |-> FALSE, int |-> 0, frac |-> 0]],
    [created |-> [secs |-> 1700691200, nanos |-> 100000000], sensor_id |-> 8,
     temperature |-> FV(FALSE, 20, 0)],
    [created |-> [secs |-> 946684801, nanos |-> 1000], sensor_id |-> 9,
     temperature |-> FV(TRUE, 0, 5)] }

BatchInputs == UNION { [1..n -> RowSamples] : n \in 0..MaxRows }

InitBuffer == Idle /\ arg \in { << b >> : b \in BatchInputs } /\ ret = << >>

CallBuffer ==
  /\ ret = << >>
  /\ ret' = << generate_buffer(arg[1]) >>
  /\ UNCHANGED <<progVars, arg>>

SpecBuffer == InitBuffer /\ [][CallBuffer]_vars

---------------------------------------------------------------------------
(* Reading a COPY BINARY stream back: the reader's side of the format     *)

\* a big-endian signed 32-bit integer at byte position p
ReadI32(b, p) ==
  (IF b[p] >= 128 THEN b[p] - 256 ELSE b[p]) * 16777216
    + b[p + 1] * 65536 + b[p + 2] * 256 + b[p + 3]

RECURSIVE ParseFields(_, _, _, _)
\* k length-prefixed fields from position p: [ok, pos, fields]
ParseFields(b, p, k, acc) ==
  IF k = 0 THEN [ok |-> TRUE, pos |-> p, fields |-> acc]
  ELSE IF p + 3 > Len(b) THEN [ok |-> FALSE, pos |-> p, fields |-> acc]
  ELSE LET n == ReadI32(b, p)
       IN  IF n < 0 \/ p + 3 + n > Len(b)
           THEN [ok |-> FALSE, pos |-> p, fields |-> acc]
           ELSE ParseFields(b, p + 4 + n, k - 1,
                            Append(acc, SubSeq(b, p + 4, p + 3 + n)))

RECURSIVE ParseRecords(_, _, _)
\* row records from position p up to the terminator, which must be the last
\* two bytes: [ok, records], a record being the sequence of its fields
ParseRecords(b, p, acc) ==
  IF p + 1 > Len(b) THEN [ok |-> FALSE, records |-> acc]
  ELSE LET k == ReadI16(b, p)
       IN  IF k = -1 THEN [ok |-> (p + 1 = Len(b)), records |-> acc]
           ELSE IF k < 0 THEN [ok |-> FALSE, records |-> acc]
           ELSE LET f == ParseFields(b, p + 2, k, << >>)
                IN  IF ~f.ok THEN [ok |-> FALSE, records |-> acc]
                    ELSE ParseRecords(b, f.pos, Append(acc, f.fields))

\* the stream after its 19-byte header
ParseStream(b) ==
  IF Len(b) < 19 THEN [ok |-> FALSE, records |-> << >>]
  ELSE ParseRecords(b, 20, << >>)

\* the digit groups the value's decimal form needs: one per 4 integer
\* digits, one more for a fraction ("NaN" and "inf" make one group)
ExpectedGroups(v) ==
  IF v.kind = "fin"
  THEN (IntLen(v.int) + 3) \div 4 + (IF v.frac = 0 THEN 0 ELSE 1)
  ELSE 1

ExpectedRowSize(row) == 2 + (4 + 8) + (4 + 4) + (4 + 8 + 2 * ExpectedGroups(row.temperature))

RECURSIVE SumRowSizes(_)
SumRowSizes(rows) == IF rows = << >> THEN 0
                     ELSE ExpectedRowSize(Head(rows)) + SumRowSizes(Tail(rows))

\* C1: the buffer is one 19-byte header (the signature, then two 4-byte
\* zeros), the n row records in input order, one 2-byte terminator -1; its
\* length is 19 + the sum of the row sizes + 2, which is 21 for n = 0.
BufferLayout ==
  ret # << >> =>
    LET b    == ret[1].bytes
        rows == arg[1]
        P    == ParseStream(b)
    IN  /\ ret[1].ok
        /\ Len(b) = 19 + SumRowSizes(rows) + 2
        /\ (rows = << >> => Len(b) = 21)
        /\ SubSeq(b, 1, 11) = << 80, 71, 67, 79, 80, 89, 10, 255, 13, 10, 0 >>
        /\ \A i \in 12..19 : b[i] = 0
        /\ SubSeq(b, Len(b) - 1, Len(b)) = << 255, 255 >>
        /\ P.ok
        /\ Len(P.records) = Len(rows)
        /\ \A i \in 1..Len(rows) :
             /\ Len(P.records[i]) = 3
             /\ P.records[i][1] = I64BE(datetime_to_postgres_binary(rows[i].created))
             /\ P.records[i][2] = I32BE(rows[i].sensor_id)
             /\ P.records[i][3] = numeric_to_postgres_binary(rows[i].temperature)

\* a batch of two different rows, encoded: 19 + 38 + 38 + 2 bytes
BufferLayoutWitness ==
  /\ ret # << >>
  /\ Len(arg[1]) = 2
  /\ arg[1][1] = ScenarioRow
  /\ arg[1][2].sensor_id = 1
  /\ Len(ret[1].bytes) = 97

\* C9: every row record has field count 3; each 4-byte length prefix is the
\* number of payload bytes after it: 8 for the timestamp, 4 for the sensor
\* id, 8 + 2 * ndigits for the temperature, ndigits being the number of
\* digit groups written; the stream parses into exactly n three-field
\* records and the terminator, with no byte left over.
RecordFraming ==
  ret # << >> =>
    LET b    == ret[1].bytes
        rows == arg[1]
        P    == ParseStream(b)
    IN  /\ P.ok
        /\ Len(P.records) = Len(rows)
        /\ \A i \in 1..Len(P.records) :
             LET f == P.records[i]
             IN  /\ Len(f) = 3
                 /\ Len(f[1]) = 8
                 /\ Len(f[2]) = 4
                 /\ Len(f[3]) >= 8
                 /\ Len(f[3]) = 8 + 2 * ReadI16(f[3], 1)
                 /\ ReadI16(f[3], 1) = ExpectedGroups(rows[i].temperature)

\* a row whose temperature, 12345.67, takes three digit groups
RecordFramingWitness ==
  /\ ret # << >>
  /\ Len(arg[1]) = 2
  /\ arg[1][2].temperature = FV(FALSE, 12345, 67)
  /\ ParseStream(ret[1].bytes).ok
  /\ Len(ParseStream(ret[1].bytes).records[2][3]) = 14

\* C3: the one-row batch (epoch + 1 day, sensor 5, 23.50) encodes to the
\* signature, two zero fields, field count 3, length 8 and 86_400_000_000,
\* length 4 and 5, length 12 and the numeric (ndigits 2, weight 0, sign 0,
\* dscale 2, groups 23 and 5000), then -1; and every finite temperature is
\* written with dscale 2.
ScenarioBytes ==
  /\ (ret # << >> /\ arg[1] = << ScenarioRow >>) =>
       ret[1].bytes =
         << 80, 71, 67, 79, 80, 89, 10, 255, 13, 10, 0,
            0, 0, 0, 0,   0, 0, 0, 0,
            0, 3,
            0, 0, 0, 8,   0, 0, 0, 20, 29, 215, 96, 0,
            0, 0, 0, 4,   0, 0, 0, 5,
            0, 0, 0, 12,  0, 2,  0, 0,  0, 0,  0, 2,  0, 23,  19, 136,
            255, 255 >>
  /\ ret # << >> =>
       \A i \in 1..Len(arg[1]) :
         arg[1][i].temperature.kind = "fin" =>
           ReadNumeric(ParseStream(ret[1].bytes).records[i][3]).dscale = 2

---------------------------------------------------------------------------
(* The generator: generate_batch and generate_data *)

\* Duration::milliseconds(100), in nanoseconds
TICK_NANOS == 100000000

\* (mutant) the tick taken as 10 milliseconds
NextTimeShort(t) == AddDuration(t, 0, 10000000)

\* current_time += Duration::milliseconds(100)
NextTime(t) == AddDuration(t, 0, TICK_NANOS)

RECURSIVE SensorAt(_, _)
\* current_sensor_id after the closure ran for i = 0..k:
\* current_sensor_id = (current_sensor_id + i) % MAX_SENSORS + 1
SensorAt(first, k) ==
  LET before == IF k = 0 THEN first ELSE SensorAt(first, k - 1)
  IN  ((before + k) % MAX_SENSORS) + 1

\* what ((base_temp + rng.gen_range(-5.0..5.0)) * 100.0).round() / 100.0 can
\* be for base_temp = 20.0: some of the values 15.00..25.00
Temperatures ==
  { [kind |-> "fin", neg |-> FALSE, int |-> 15, frac |-> 0],
    [kind |-> "fin", neg |-> FALSE, int |-> 19, frac |-> 87],
    [kind |-> "fin", neg |-> FALSE, int |-> 24, frac |-> 90] }

\* temps[i] is what the random source gave for row i. Every row carries the
\* one timestamp created; the second component is the sensor_id parameter
\* as it came in, not current_sensor_id.
generate_batch(created, first_sensor, temps) ==
  << [i \in 1..BATCH_SIZE |->
        [created |-> created,
         sensor_id |-> SensorAt(first_sensor, i - 1),
         temperature |-> temps[i]]],
     first_sensor >>

---------------------------------------------------------------------------
(* main: for each strategy an ExecutionContext, then every batch of        *)
(* generate_data handed to the strategy's function                         *)

Strategies == << "insert", "insert-str", "copy" >>

\* what Utc::now() may return when a strategy starts
Nows == { [secs |-> 1700000000, nanos |-> 0],
          [secs |-> 1700000000, nanos |-> 850000123] }

\* "Copied {current_tick}" when current_tick % REPORT_COUNT == 0
Progress(out, tick) ==
  IF tick % REPORT_COUNT = 0 THEN Append(out, [line |-> "Copied", n |-> tick])
  ELSE out

Init ==
  /\ pc = "new" /\ strategy = 1
  /\ current_time = POSTGRES_EPOCH /\ sensor_id = 1 /\ current_tick = 0
  /\ batch_data = << >> /\ buffer = << >>
  /\ sink = [open |-> FALSE, bytes |-> << >>]
  /\ table = 0 /\ stdout = << >> /\ context = << >> /\ produced = << >>
  /\ arg = << >> /\ ret = << >>

\* ExecutionContext::new, start_time = Utc::now() + 8 days, and the state
\* generate_data starts from. The table's size is counted in rows.
ContextNew ==
  /\ pc = "new"
  /\ \E now \in Nows :
       current_time' = AddDuration(now, 8 * SECS_PER_DAY, 0)
  /\ context' = << [name |-> Strategies[strategy], s0 |-> table] >>
  /\ sensor_id' = 1
  /\ current_tick' = 0
  /\ produced' = << >>
  /\ pc' = "next"
  /\ UNCHANGED <<strategy, batch_data, buffer, sink, table, stdout, arg, ret>>

\* one step of the flat_map closure of generate_data
NextBatch ==
  /\ pc = "next"
  /\ current_tick < BATCH_COUNT
  /\ \E temps \in [1..BATCH_SIZE -> Temperatures] :
       LET r == generate_batch(NextTime(current_time), sensor_id, temps)
       IN  /\ batch_data' = r[1]
           /\ sensor_id' = r[2]
           /\ produced' = produced \o
                [i \in 1..Len(r[1]) |->
                   [created |-> r[1][i].created, sensor_id |-> r[1][i].sensor_id,
                    tick |-> current_tick + 1]]
  /\ current_tick' = current_tick + 1
  /\ current_time' = NextTime(current_time)
  /\ pc' = "call"
  /\ UNCHANGED <<strategy, buffer, sink, table, stdout, context, arg, ret>>

\* the range 0..batch_count is used up
IteratorEnd ==
  /\ pc = "next"
  /\ current_tick >= BATCH_COUNT
  /\ pc' = "drop"
  /\ UNCHANGED <<strategy, current_time, sensor_id, current_tick, batch_data,
                 buffer, sink, table, stdout, context, produced, arg, ret>>

\* one transaction: every row executed, then the commit
insert_to_postgres ==
  /\ pc = "call" /\ Strategies[strategy] = "insert"
  /\ table' = table + Len(batch_data)
  /\ stdout' = Progress(stdout, current_tick)
  /\ pc' = "next"
  /\ UNCHANGED <<strategy, current_time, sensor_id, current_tick, batch_data,
                 buffer, sink, context, produced, arg, ret>>

\* one INSERT statement listing every row
insert_to_postgres_string ==
  /\ pc = "call" /\ Strategies[strategy] = "insert-str"
  /\ table' = table + Len(batch_data)
  /\ stdout' = Progress(stdout, current_tick)
  /\ pc' = "next"
  /\ UNCHANGED <<strategy, current_time, sensor_id, current_tick, batch_data,
                 buffer, sink, context, produced, arg, ret>>

\* copy_to_postgres, first statement: generate_buffer(batch_data).unwrap()
CopyEncode ==
  /\ pc = "call" /\ Strategies[strategy] = "copy"
  /\ buffer = << >>
  /\ buffer' = << generate_buffer(batch_data) >>
  /\ pc' = IF buffer'[1].ok THEN "copy_in" ELSE "panicked"
  /\ UNCHANGED <<strategy, current_time, sensor_id, current_tick, batch_data,
                 sink, table, stdout, context, produced, arg, ret>>

\* (mutant) the COPY opened before the batch is encoded
CopyInBeforeEncode ==
  /\ pc = "call" /\ Strategies[strategy] = "copy"
  /\ ~sink.open
  /\ sink' = [sink EXCEPT !.open = TRUE]
  /\ UNCHANGED <<pc, strategy, current_time, sensor_id, current_tick,
                 batch_data, buffer, table, stdout, context, produced, arg, ret>>

\* client.copy_in("COPY metrics FROM STDIN WITH BINARY")
CopyIn ==
  /\ pc = "copy_in"
  /\ sink' = [sink EXCEPT !.open = TRUE]
  /\ pc' = "write"
  /\ UNCHANGED <<strategy, current_time, sensor_id, current_tick, batch_data,
                 buffer, table, stdout, context, produced, arg, ret>>

\* writer.write_all(&buffer)
CopyWrite ==
  /\ pc = "write"
  /\ sink' = [sink EXCEPT !.bytes = sink.bytes \o buffer[1].bytes]
  /\ pc' = "finish"
  /\ UNCHANGED <<strategy, current_time, sensor_id, current_tick, batch_data,
                 buffer, table, stdout, context, produced, arg, ret>>

\* writer.finish(): the server stores one row per row record of the stream;
\* then the progress line, and the buffer goes out of scope
CopyFinish ==
  /\ pc = "finish"
  /\ table' = table + Len(batch_data)
  /\ sink' = [open |-> FALSE, bytes |-> << >>]
  /\ buffer' = << >>
  /\ stdout' = Progress(stdout, current_tick)
  /\ pc' = "next"
  /\ UNCHANGED <<strategy, current_time, sensor_id, current_tick, batch_data,
                 context, produced, arg, ret>>

\* Drop for ExecutionContext at the end of the loop body, then the next pair
ContextDrop ==
  /\ pc = "drop"
  /\ stdout' = Append(stdout, [line |-> context[1].name,
                               n |-> table - context[1].s0])
  /\ context' = << >>
  /\ IF strategy < Len(Strategies)
     THEN strategy' = strategy + 1 /\ pc' = "new"
     ELSE strategy' = strategy /\ pc' = "done"
  /\ UNCHANGED <<current_time, sensor_id, current_tick, batch_data, buffer,
                 sink, table, produced, arg, ret>>

Next ==
  \/ ContextNew
  \/ NextBatch
  \/ IteratorEnd
  \/ insert_to_postgres
  \/ insert_to_postgres_string
  \/ CopyEncode
  \/ CopyIn
  \/ CopyWrite
  \/ CopyFinish
  \/ ContextDrop

Spec == Init /\ [][Next]_vars

---------------------------------------------------------------------------
(* Properties of the run *)

\* C7: the sink is given a COPY, and bytes, for a batch only once
\* generate_buffer has returned Ok for the whole batch; what it is given is
\* that buffer, a complete stream of the batch's rows. Contrapositive: a
\* batch whose encoding did not succeed opens no COPY and sends no byte.
CopyAfterEncode ==
  (sink.open \/ sink.bytes # << >>) =>
    /\ Strategies[strategy] = "copy"
    /\ buffer # << >>
    /\ buffer[1].ok
    /\ ParseStream(buffer[1].bytes).ok
    /\ Len(ParseStream(buffer[1].bytes).records) = Len(batch_data)
    /\ sink.bytes \in { << >>, buffer[1].bytes }

\* the whole buffer of a full batch written to the open COPY
CopyAfterEncodeWitness ==
  /\ sink.open
  /\ buffer # << >>
  /\ sink.bytes = buffer[1].bytes
  /\ Len(batch_data) = BATCH_SIZE
  /\ Len(sink.bytes) > 21

\* C8 as stated: in the rows in production order, every row's timestamp is
\* exactly 100 milliseconds after that of the row before it.
RowTickSpacing ==
  \A i \in 2..Len(produced) :
    produced[i].created = AddDuration(produced[i - 1].created, 0, 100000000)

\* C8 as amended: all rows of a batch carry the one timestamp of their
\* batch, and each batch's timestamp is exactly 100 milliseconds after that
\* of the batch before it.
BatchTickSpacing ==
  \A i \in 2..Len(produced) :
    IF produced[i].tick = produced[i - 1].tick
    THEN produced[i].created = produced[i - 1].created
    ELSE /\ produced[i].tick = produced[i - 1].tick + 1
         /\ produced[i].created =
              AddDuration(produced[i - 1].created, 0, 100000000)

\* two batches produced, the second one across a whole-second boundary
BatchTickSpacingWitness ==
  /\ Len(produced) = 2 * BATCH_SIZE
  /\ produced[BATCH_SIZE].tick = 1
  /\ produced[BATCH_SIZE + 1].tick = 2
  /\ produced[BATCH_SIZE + 1].created.secs = produced[BATCH_SIZE].created.secs + 1
  /\ produced[BATCH_SIZE + 1].created.nanos < produced[BATCH_SIZE].created.nanos

\* C10: every sensor id lies in 1..32, and the progression carries over
\* from one batch to the next: the first row of a batch continues, by the
\* step (previous + 0) % 32 + 1, from the last row of the batch before it.
SensorCarryOver ==
  /\ \A i \in 1..Len(produced) : produced[i].sensor_id \in 1..32
  /\ \A i \in 2..Len(produced) :
       produced[i].tick # produced[i - 1].tick =>
         produced[i].sensor_id = (produced[i - 1].sensor_id % 32) + 1

=============================================================================
